---- MODULE Spec2Model ----
(***************************************************************************)
(* A model of the python-playground tutorial scripts.                      *)
(*                                                                         *)
(* One run of the model is one run of one entry point: either a script run *)
(* directly (python <script>), or a function or class of a script driven  *)
(* with arbitrary inputs (the BankAccount classes, timeout_demo,           *)
(* fetch_multiple_urls, filter_error_logs, the Fibonacci generators,       *)
(* CountDown).                                                             *)
(*                                                                         *)
(* A script is the sequence of its top-level statements.  A statement is a *)
(* list of primitive operations (print, open, os.remove, shutil.rmtree,    *)
(* import, evaluation of global names, asyncio.run) with the exceptions    *)
(* its try/except catches.  Statements that only print or define are left  *)
(* out unless their output is needed.                                      *)
(***************************************************************************)
EXTENDS Integers, Sequences, FiniteSets

VARIABLES
    entry,      \* the entry point of this run
    pc,         \* index of the next top-level statement (scripts); operations done (classes)
    status,     \* "running", "exited" (fell off the end), "raised" (uncaught exception)
    exc,        \* the uncaught exception, "" when none
    files,      \* paths existing in the working directory
    rofiles,    \* paths that are not writable
    created,    \* paths this run created
    names,      \* module-global names bound so far
    modules,    \* sys.modules entries added by this run
    out,        \* standard output, one element per print
    tasks,      \* asyncio tasks of the running event loop
    ready,      \* the loop's ready queue (task wakeups, FIFO)
    timers,     \* the loop's scheduled timer handles
    now,        \* the loop's clock, in units of 100 ms
    queue,      \* the asyncio.Queue of producer_consumer_demo
    accessed,   \* for each mutable object, the tasks that read or wrote it
    acct,       \* the BankAccount under test
    last,       \* the last BankAccount call: arguments, result, state before
    calls,      \* every BankAccount call since creation, in call order
    urls,       \* the argument of fetch_multiple_urls
    rnd,        \* what the random module has returned to each fetch_url: delay, size
    fetched,    \* outcome of each fetch_url task: its result or its exception
    ret,        \* what fetch_multiple_urls returned
    content,    \* the lines of the text files in the working directory
    filtered,   \* the call of filter_error_logs: arguments, result, files before
    fib,        \* the two Fibonacci generators and what each has yielded
    countdown   \* the CountDown iterator and what next() has returned

vars == <<entry, pc, status, exc, files, rofiles, created, names, modules, out,
          tasks, ready, timers, now, queue, accessed, acct, last, calls,
          urls, rnd, fetched, ret, content, filtered, fib, countdown>>

fsVars == <<files, rofiles, created, names, modules>>
loopVars == <<tasks, ready, timers, now, queue, accessed>>
bankVars == <<acct, last, calls>>
fetchVars == <<urls, rnd, fetched, ret>>
logVars == <<content, filtered>>
genVars == <<fib, countdown>>
fnVars == <<fetchVars, logVars, genVars>>

----------------------------------------------------------------------------
(* Bounds of the model *)

MaxOps == 3          \* BankAccount calls per run
MaxAmount == 2       \* largest amount passed to deposit / withdraw
MaxInitial == 1      \* largest initial balance
MaxUrls == 2         \* longest list passed to fetch_multiple_urls
MaxLines == 2        \* most lines in the input file of filter_error_logs
MaxValue == 8        \* largest max_value passed to the Fibonacci generators
MaxStart == 3        \* largest start passed to CountDown
MaxNext == 2         \* next() calls made on an exhausted iterator

----------------------------------------------------------------------------
(* Working directory *)

PkgDir == "my_sample_package"
PkgInit == "my_sample_package/__init__.py"
PkgCalculator == "my_sample_package/calculator.py"
PkgUtils == "my_sample_package/utils.py"
PkgCache == "my_sample_package/__pycache__"
PkgFiles == {PkgInit, PkgCalculator, PkgUtils, PkgCache}

\* the directory a path lives in ("." is the working directory)
Parent(p) == IF p \in PkgFiles THEN PkgDir ELSE IF p = "logs/errors.log" THEN "logs" ELSE "."

NoExc == ""

\* The part of the state a statement's primitives act on.
Env(f, c, n, m, o, e) ==
    [files |-> f, created |-> c, names |-> n, modules |-> m, out |-> o, exc |-> e]

\* open(path, "w") / open(path, "a"): creates the file when it is missing
OpenWrite(st, path, ro) ==
    IF Parent(path) # "." /\ Parent(path) \notin st.files
    THEN [st EXCEPT !.exc = "FileNotFoundError"]
    ELSE IF path \in st.files /\ path \in ro
    THEN [st EXCEPT !.exc = "PermissionError"]
    ELSE [st EXCEPT !.files = @ \cup {path},
                    !.created = IF path \in st.files THEN @ ELSE @ \cup {path}]

\* open(path, "r")
OpenRead(st, path) ==
    IF path \in st.files THEN st ELSE [st EXCEPT !.exc = "FileNotFoundError"]

\* os.remove(path)
OsRemove(st, path) ==
    IF path \in st.files
    THEN [st EXCEPT !.files = @ \ {path}]
    ELSE [st EXCEPT !.exc = "FileNotFoundError"]

\* shutil.rmtree(path): the directory and everything in it
RmTree(st, path) ==
    IF path \in st.files
    THEN [st EXCEPT !.files = {p \in @ : p # path /\ Parent(p) # path}]
    ELSE [st EXCEPT !.exc = "FileNotFoundError"]

\* os.makedirs(path, exist_ok=True)
MakeDirs(st, path) ==
    [st EXCEPT !.files = @ \cup {path},
               !.created = IF path \in st.files THEN @ ELSE @ \cup {path}]

\* evaluation of an expression / assignment at module level
EvalNames(st, reads, writes) ==
    IF reads \subseteq st.names
    THEN [st EXCEPT !.names = @ \cup writes]
    ELSE [st EXCEPT !.exc = "NameError"]

\* from my_sample_package import Calculator, greet
ImportPackage(st, writes) ==
    IF {PkgDir, PkgInit, PkgCalculator, PkgUtils} \subseteq st.files
    THEN [st EXCEPT !.modules = @ \cup {PkgDir},
                    !.names = @ \cup writes,
                    !.files = @ \cup {PkgCache},
                    !.created = IF PkgCache \in st.files THEN @ ELSE @ \cup {PkgCache}]
    ELSE [st EXCEPT !.exc = "ImportError"]

----------------------------------------------------------------------------
(* Statements *)

Prim(k, p, t, r, w) == [prim |-> k, path |-> p, text |-> t, reads |-> r, writes |-> w]
P(text) == Prim("print", "", text, {}, {})
W(path) == Prim("open_w", path, "", {}, {})
R(path) == Prim("open_r", path, "", {}, {})
Rm(path) == Prim("remove", path, "", {}, {})
RmT(path) == Prim("rmtree", path, "", {}, {})
MkD(path) == Prim("makedirs", path, "", {}, {})
Ev(reads, writes) == Prim("eval", "", "", reads, writes)
Imp(writes) == Prim("import", "", "", {}, writes)
ARun(coro) == Prim("asyncio_run", coro, "", {}, {})

AllExceptions == {"FileNotFoundError", "PermissionError", "NameError", "ImportError"}

\* a plain statement, and a try/except statement with its handler
S(line, body) == [line |-> line, body |-> body, catches |-> {}, handler |-> <<>>]
Try(line, body, catches, handler) ==
    [line |-> line, body |-> body, catches |-> catches, handler |-> handler]

ExecPrim(st, p, ro) ==
    CASE p.prim = "print" -> [st EXCEPT !.out = Append(@, p.text)]
      [] p.prim = "open_w" -> OpenWrite(st, p.path, ro)
      [] p.prim = "open_r" -> OpenRead(st, p.path)
      [] p.prim = "remove" -> OsRemove(st, p.path)
      [] p.prim = "rmtree" -> RmTree(st, p.path)
      [] p.prim = "makedirs" -> MakeDirs(st, p.path)
      [] p.prim = "eval" -> EvalNames(st, p.reads, p.writes)
      [] p.prim = "import" -> ImportPackage(st, p.writes)

\* the primitives of a block in order, up to the first one that raises
RECURSIVE ExecBody(_, _, _, _)
ExecBody(st, body, i, ro) ==
    IF i > Len(body) \/ st.exc # NoExc THEN st
    ELSE ExecBody(ExecPrim(st, body[i], ro), body, i + 1, ro)

\* a statement: its body, then its handler when the body raised a caught exception
ExecStmt(st, s, ro) ==
    LET b == ExecBody(st, s.body, 1, ro) IN
    IF b.exc # NoExc /\ b.exc \in s.catches
    THEN ExecBody([b EXCEPT !.exc = NoExc], s.handler, 1, ro)
    ELSE b

----------------------------------------------------------------------------
(* The scripts: their top-level statements that touch files, global names, *)
(* imports or the event loop, with the source line of each                 *)

\* sync_task(name, duration): time.sleep blocks the whole interpreter
sync_task(name) ==
    <<P("Sync task " \o name \o " started"), P("Sync task " \o name \o " completed")>>

Script08 == <<
    S(26, <<W("sample.txt"), P("Created sample.txt")>>),
    S(33, <<R("sample.txt")>>),
    S(41, <<R("sample.txt")>>),
    S(51, <<R("sample.txt")>>),
    S(62, <<W("fruits.txt"), P("Created fruits.txt")>>),
    S(67, <<W("fruits.txt"), P("Appended to fruits.txt")>>),
    S(73, <<R("fruits.txt")>>),
    S(111, <<R("sample.txt")>>),
    Try(118, <<R("nonexistent.txt")>>, {"FileNotFoundError"}, <<P("File not found!")>>),
    Try(125, <<W("readonly.txt")>>, {"PermissionError"}, <<P("Permission denied!")>>),
    S(141, <<W("students.csv")>>),
    S(146, <<R("students.csv")>>),
    Try(177, <<R("sample.txt")>>, {"FileNotFoundError"}, <<>>),
    Try(189, <<R("sample.txt")>>, {"FileNotFoundError"}, <<P("File sample.txt not found")>>),
    Try(200, <<R("sample.txt"), W("sample_copy.txt"), P("Copied sample.txt to sample_copy.txt")>>,
        {"FileNotFoundError"}, <<P("Source file sample.txt not found")>>),
    Try(206, <<Rm("sample.txt"), P("Removed sample.txt")>>, {"FileNotFoundError"}, <<>>),
    Try(206, <<Rm("fruits.txt"), P("Removed fruits.txt")>>, {"FileNotFoundError"}, <<>>),
    Try(206, <<Rm("students.csv"), P("Removed students.csv")>>, {"FileNotFoundError"}, <<>>),
    Try(206, <<Rm("sample_copy.txt"), P("Removed sample_copy.txt")>>, {"FileNotFoundError"}, <<>>),
    S(212, <<P("File I/O mastered!")>>) >>

\* variant of the cleanup that forgets the package directory
Cleanup09KeepsPackage ==
    Try(320, <<Rm("requirements.txt"), P("Cleaned up sample files")>>, AllExceptions, <<>>)

\* the CLEANUP section: one try block with a bare except
Cleanup09 ==
    Try(320, <<Rm("requirements.txt"), RmT(PkgDir), P("Cleaned up sample files")>>,
        AllExceptions, <<>>)

Script09 == <<
    S(121, <<W("requirements.txt"), P("Created sample requirements.txt")>>),
    S(149, <<MkD(PkgDir)>>),
    S(166, <<W(PkgInit)>>),
    S(196, <<W(PkgCalculator)>>),
    S(213, <<W(PkgUtils)>>),
    S(216, <<P("Created sample package structure")>>),
    Try(223, <<Imp({"Calculator", "greet"}),
               Ev({"Calculator"}, {"calc"}),
               Ev({"calc"}, {}), P("Calculator: 5 + 3 = 8"),
               Ev({"calc"}, {}), P("Calculator: 10 - 4 = 6"),
               Ev({"greet"}, {}), P("Greeting: Hello, Python Developer!")>>,
        {"ImportError"}, <<P("Could not import package")>>),
    Cleanup09,
    S(327, <<P("Packaging and virtual environments mastered!")>>) >>

Script10 == <<
    S(19, <<Ev({}, {"user_name", "total_score", "max_attempts"})>>),
    S(23, <<Ev({}, {"calculate_total", "get_user_info"})>>),
    S(32, <<Ev({}, {"MAX_CONNECTIONS", "DEFAULT_TIMEOUT", "API_BASE_URL"})>>),
    S(37, <<Ev({}, {"UserAccount", "DatabaseConnection"})>>),
    S(60, <<Ev({}, {"process_data", "long_function_name"})>>),
    S(80, <<Ev({"first_value", "second_value", "multiplier"}, {"result"})>>),
    S(81, <<Ev({"age", "has_license"}, {"is_valid"})>>),
    S(84, <<Ev({}, {"shopping_list", "user_data"})>>),
    S(98, <<P("Proper code layout demonstrated")>>),
    S(125, <<Ev({}, {"short_message", "long_message"})>>),
    S(134, <<Ev({"some_function", "first_argument", "second_argument",
                 "third_argument", "fourth_argument"}, {"result"})>>),
    S(141, <<P("Proper line length management demonstrated")>>),
    S(145, <<Ev({}, {"calculate_compound_interest"})>>),
    S(167, <<Ev({"x"}, {"x"})>>),
    S(205, <<Ev({}, {"tools_info"}), Ev({"tools_info"}, {})>>),
    S(232, <<Ev({}, {"BankAccount"})>>),
    S(264, <<Ev({"BankAccount"}, {"account"}), Ev({"account"}, {}),
             P("Account balance: $1300.0")>>),
    S(308, <<P("PEP 8 and code style mastered!")>>) >>

Script13 == <<
    S(288, <<P("Opening file: test.txt"), W("test.txt"), P("Closing file: test.txt")>>),
    Try(417, <<Rm("test.txt")>>, AllExceptions, <<>>),
    S(422, <<P("Magic methods mastered!")>>) >>

Script14 == <<
    S(101, <<W("test_file.txt")>>),
    Try(105, <<R("test_file.txt")>>, {"FileNotFoundError"}, <<P("File not found")>>),
    S(297, <<W("large_file.txt")>>),
    S(302, <<R("large_file.txt")>>),
    Try(362, <<Rm("test_file.txt"), Rm("large_file.txt")>>, AllExceptions, <<>>),
    S(368, <<P("Generators and iteration mastered!")>>) >>

Script16 == <<
    S(30, <<ARun("hello_async")>>),
    S(53, sync_task("A")),
    S(54, sync_task("B")),
    S(55, sync_task("C")),
    S(77, <<ARun("run_async_tasks")>>),
    S(102, <<P("All tasks completed: ['Task1 finished', 'Task2 finished']")>>),
    S(135, <<ARun("async_context_demo")>>),
    S(152, <<P("Generated: 5")>>),
    S(198, <<P("  Task 6: Task 6 succeeded")>>),
    S(257, <<P("Successful: 4, Failed: 1")>>),
    S(308, <<ARun("producer_consumer_demo")>>),
    S(348, <<ARun("timeout_demo")>>),
    S(397, <<ARun("hello_async")>>),
    Try(402, <<Rm("async_test.txt")>>, AllExceptions, <<>>),
    S(407, <<P("Asynchronous I/O mastered!")>>) >>

ScriptPractice == <<
    S(77, <<W("log.txt")>>),
    Try(96, <<R("log.txt"), W("errors.log")>>, {"FileNotFoundError"},
        <<P("File log.txt not found")>>),
    S(97, <<P("Found and wrote 3 error lines to errors.log")>>),
    S(101, <<R("errors.log")>>),
    S(334, <<P("Failed fetches:")>>),
    S(413, <<P("Final processor state: DataProcessor('ExamProcessor', processed=4)")>>),
    Try(417, <<Rm("log.txt"), Rm("errors.log"), P("Cleaned up temporary files")>>,
        AllExceptions, <<>>),
    S(434, <<P("You're ready for your Python exam!")>>) >>

\* the scripts that only define, compute and print
ScriptPrintOnly(lastLine, text) == << S(lastLine, <<P(text)>>) >>

Scripts == {"01", "02", "03", "04", "05", "06", "07", "08", "09", "10", "11", "12",
            "13", "14", "15", "16", "practice", "study_guide"}

Program(e) ==
    CASE e = "08" -> Script08
      [] e = "09" -> Script09
      [] e = "10" -> Script10
      [] e = "13" -> Script13
      [] e = "14" -> Script14
      [] e = "16" -> Script16
      [] e = "practice" -> ScriptPractice
      [] e = "01" -> ScriptPrintOnly(44, "Syntax and indentation mastered!")
      [] e = "02" -> ScriptPrintOnly(73, "Data types mastered!")
      [] e = "03" -> ScriptPrintOnly(81, "Operators mastered!")
      [] e = "04" -> ScriptPrintOnly(135, "Control flow mastered!")
      [] e = "05" -> ScriptPrintOnly(147, "Functions and scope mastered!")
      [] e = "06" -> ScriptPrintOnly(182, "Lists and dictionaries mastered!")
      [] e = "07" -> ScriptPrintOnly(174, "Strings and formatting mastered!")
      [] e = "11" -> ScriptPrintOnly(310, "OOP Fundamentals mastered!")
      [] e = "12" -> ScriptPrintOnly(378, "OOP Principles mastered!")
      [] e = "15" -> ScriptPrintOnly(345, "Regular expressions mastered!")
      [] e = "timeout_demo" -> << S(348, <<ARun("timeout_demo")>>) >>
      [] e = "fetch_multiple_urls" -> << S(334, <<ARun("fetch_multiple_urls")>>) >>
      [] e = "study_guide" -> ScriptPrintOnly(240, "Good luck with your exam!")
      [] OTHER -> <<>>

IsAsyncioRun(s) == Len(s.body) = 1 /\ s.body[1].prim = "asyncio_run"


----------------------------------------------------------------------------
(* The asyncio event loop: tasks, the FIFO ready queue, timer handles.     *)
(* A task step runs its coroutine from one suspension point to the next.   *)

Digits == <<"0", "1", "2", "3", "4", "5", "6", "7", "8", "9">>

\* the task created for urls[i]
FetchTask(i) == "fetch" \o Digits[i + 1]

TaskIds == {"main", "A", "B", "C", "producer", "consumer1", "consumer2", "Task1", "Task2"}
           \cup {FetchTask(i) : i \in 1..MaxUrls}
Objects == {"queue", "file", "results"}

\* durations in clock units of 100 ms
HelloSleep == 10
AsyncTaskSleep == 10
AenterSleep == 1
ContextBodySleep == 5
AexitSleep == 1
ProducerSleep == 1
ConsumerSleep == 2
ProducerCount == 5
QueueMaxSize == 5
Task1Duration == 30
WaitForTimeout == 20
Task2Duration == 50
CancelAfter == 10

None == -1

NoTask == [coro |-> "", st |-> "absent", pc |-> "", name |-> "", i |-> 0,
           must_cancel |-> FALSE, wait |-> {}, result |-> ""]
NewTask(coro, name) == [NoTask EXCEPT !.coro = coro, !.st = "pending", !.pc = "start",
                                      !.name = name]
EmptyQueue == [items |-> <<>>, unfinished |-> 0, getters |-> <<>>, putters |-> <<>>,
               joiners |-> <<>>]
NoLoopTasks == [t \in TaskIds |-> NoTask]
NoAccess == [o \in Objects |-> {}]

InSeq(s, x) == \E k \in 1..Len(s) : s[k] = x
Without(s, x) == SelectSeq(s, LAMBDA y : y # x)
Done(L, t) == L.tasks[t].st \in {"finished", "cancelled"}

\* what the random module returns during a step, when the step asks
NoDraw == [delay |-> 0, size |-> 0]

\* the loop state a step acts on, taken from the variables
Loop == [tasks |-> tasks, ready |-> ready, timers |-> timers, now |-> now,
         queue |-> queue, accessed |-> accessed, out |-> out, files |-> files,
         created |-> created, exc |-> NoExc, fetched |-> fetched, ret |-> ret,
         rnd |-> rnd, draw |-> NoDraw]

Emit(L, text) == [L EXCEPT !.out = Append(@, text)]
Touch(L, o, t) == [L EXCEPT !.accessed[o] = @ \cup {t}]
Wake(L, t) == IF InSeq(L.ready, t) THEN L ELSE [L EXCEPT !.ready = Append(@, t)]

\* asyncio.create_task(coro): the first step is scheduled with call_soon
CreateTask(L, t, coro, name) ==
    [L EXCEPT !.tasks[t] = NewTask(coro, name), !.ready = Append(@, t)]

\* await asyncio.sleep(d): a timer handle that wakes the task
Sleep(L, t, d, nextpc) ==
    [L EXCEPT !.timers = @ \cup {[when |-> L.now + d, task |-> t, kind |-> "sleep"]},
              !.tasks[t].pc = nextpc]

\* await of other tasks (await task, gather): suspended until all are done
Await(L, t, on, nextpc) ==
    [L EXCEPT !.tasks[t].wait = on, !.tasks[t].pc = nextpc]

\* the task is done: wake every task whose awaited tasks are now all done
Finish(L, t, st, result) ==
    LET L1 == [L EXCEPT !.tasks[t].st = st, !.tasks[t].pc = "done",
                        !.tasks[t].result = result, !.tasks[t].must_cancel = FALSE]
        ws == {w \in TaskIds : /\ L1.tasks[w].st = "pending"
                               /\ t \in L1.tasks[w].wait
                               /\ \A u \in L1.tasks[w].wait : Done(L1, u)
                               /\ ~InSeq(L1.ready, w)}
    IN  \* at most one task awaits another in these coroutines
        IF ws = {} THEN L1 ELSE Wake(L1, CHOOSE w \in ws : TRUE)

\* task.cancel(): CancelledError is thrown into the task at its next step
Cancel(L, t) ==
    IF L.tasks[t].st # "pending" THEN L
    ELSE IF InSeq(L.ready, t) THEN [L EXCEPT !.tasks[t].must_cancel = TRUE]
    ELSE [L EXCEPT !.tasks[t].must_cancel = TRUE,
                   !.timers = {tm \in @ : ~(tm.task = t /\ tm.kind = "sleep")},
                   !.queue.getters = Without(@, t),
                   !.queue.putters = Without(@, t),
                   !.queue.joiners = Without(@, t),
                   !.ready = Append(@, t)]

(* asyncio.Queue *)
QFull(L) == Len(L.queue.items) >= QueueMaxSize
QEmpty(L) == L.queue.items = <<>>

WakeNext(L, field) ==
    IF L.queue[field] = <<>> THEN L
    ELSE Wake([L EXCEPT !.queue[field] = Tail(@)], Head(L.queue[field]))

QPutNowait(L, item) ==
    WakeNext([L EXCEPT !.queue.items = Append(@, item), !.queue.unfinished = @ + 1],
             "getters")

QGetNowait(L) == WakeNext([L EXCEPT !.queue.items = Tail(@)], "putters")

RECURSIVE WakeAll(_, _)
WakeAll(L, ws) == IF ws = <<>> THEN L ELSE WakeAll(Wake(L, Head(ws)), Tail(ws))

QTaskDone(L) ==
    LET L1 == [L EXCEPT !.queue.unfinished = @ - 1] IN
    IF L1.queue.unfinished = 0
    THEN WakeAll([L1 EXCEPT !.queue.joiners = <<>>], L1.queue.joiners)
    ELSE L1


----------------------------------------------------------------------------
(* The coroutines of 16_async_io.py, one step operator each *)

\* a coroutine without a handler for CancelledError: the task ends cancelled
Cancelled(L, t) == Finish(L, t, "cancelled", "")

hello_async(L, t) ==
    LET T == L.tasks[t] IN
    IF T.must_cancel THEN Cancelled(L, t)
    ELSE IF T.pc = "start" THEN Sleep(Emit(L, "Hello"), t, HelloSleep, "sleeping")
    ELSE Finish(Emit(L, "World"), t, "finished", "Async function completed")

\* variant of the last step that also appends its result to a list shared by the tasks
AsyncTaskCompleteShared(L, t) ==
    Finish(Emit(Touch(L, "results", t), "Async task " \o L.tasks[t].name \o " completed"),
           t, "finished", "Async " \o L.tasks[t].name \o " done")

\* the last step of async_task: print and return the result
AsyncTaskComplete(L, t) ==
    Finish(Emit(L, "Async task " \o L.tasks[t].name \o " completed"), t, "finished",
           "Async " \o L.tasks[t].name \o " done")

async_task(L, t) ==
    LET T == L.tasks[t] IN
    IF T.must_cancel THEN Cancelled(L, t)
    ELSE IF T.pc = "start"
    THEN Sleep(Emit(L, "Async task " \o T.name \o " started"), t, AsyncTaskSleep, "sleeping")
    ELSE AsyncTaskComplete(L, t)

\* variant that gathers only the first task
RunAsyncTasksStartFirstOnly(L, t) ==
    Await(CreateTask(CreateTask(CreateTask(Emit(L, "Asynchronous execution:"),
                                           "A", "async_task", "A"),
                                "B", "async_task", "B"),
                     "C", "async_task", "C"),
          t, {"A"}, "gather")

\* run_async_tasks up to its await of gather
RunAsyncTasksStart(L, t) ==
    Await(CreateTask(CreateTask(CreateTask(Emit(L, "Asynchronous execution:"),
                                           "A", "async_task", "A"),
                                "B", "async_task", "B"),
                     "C", "async_task", "C"),
          t, {"A", "B", "C"}, "gather")

run_async_tasks(L, t) ==
    LET T == L.tasks[t] IN
    IF T.must_cancel THEN Cancelled(L, t)
    ELSE IF T.pc = "start" THEN RunAsyncTasksStart(L, t)
    ELSE Finish(Emit(Emit(Touch(L, "results", t), "Async total time"),
                     "Results: " \o L.tasks["A"].result \o ", " \o L.tasks["B"].result
                        \o ", " \o L.tasks["C"].result),
                t, "finished", "")

async_context_demo(L, t) ==
    LET T == L.tasks[t] IN
    IF T.must_cancel THEN Cancelled(L, t)
    ELSE CASE T.pc = "start" ->
                Sleep(Emit(L, "Opening file: async_test.txt"), t, AenterSleep, "aenter")
           [] T.pc = "aenter" ->
                Sleep(Touch(OpenWrite(L, "async_test.txt", rofiles), "file", t),
                      t, ContextBodySleep, "body")
           [] T.pc = "body" ->
                Sleep(Emit(Touch(L, "file", t), "Closing file: async_test.txt"),
                      t, AexitSleep, "aexit")
           [] OTHER -> Finish(Emit(L, "File operations completed"), t, "finished", "")

\* f"{name}-item-{i}"
ItemName(name, i) ==
    name \o "-item-" \o <<"0", "1", "2", "3", "4", "5", "6", "7", "8", "9">>[i + 1]

\* producer: put the next item (None after the last), print, sleep
producer(L, t) ==
    LET T == L.tasks[t]
        item == IF T.i < ProducerCount THEN T.i ELSE None
        Q == Touch(L, "queue", t)
    IN  IF T.must_cancel THEN Cancelled(L, t)
        ELSE IF QFull(Q)
        THEN [Q EXCEPT !.queue.putters = Append(@, t), !.tasks[t].pc = "put_blocked"]
        ELSE IF item # None
        THEN Sleep([Emit(QPutNowait(Q, item), "Produced: " \o ItemName(T.name, item))
                       EXCEPT !.tasks[t].i = @ + 1],
                   t, ProducerSleep, "sleeping")
        ELSE Finish(QPutNowait(Q, item), t, "finished", "")

\* what the consumer does with an item it took from the queue
ConsumerTake(L, t, item) ==
    IF item = None
    THEN Finish(L, t, "finished", "")
    ELSE Sleep(Emit(L, "Consumer " \o L.tasks[t].name \o " processing: "
                            \o ItemName("Producer1", item)),
               t, ConsumerSleep, "sleeping")

\* consumer: task_done for the item just processed, then get the next item
consumer(L, t) ==
    LET T == L.tasks[t]
        Q0 == Touch(L, "queue", t)
        Q == IF T.pc = "sleeping" THEN QTaskDone(Q0) ELSE Q0
    IN  IF T.must_cancel THEN Cancelled(L, t)
        ELSE IF QEmpty(Q)
        THEN [Q EXCEPT !.queue.getters = Append(@, t), !.tasks[t].pc = "get_blocked"]
        ELSE ConsumerTake(QGetNowait(Q), t, Head(Q.queue.items))

\* the end of producer_consumer_demo, after queue.join() has returned
DemoFinish(L, t) ==
    Finish(Emit(Cancel(Cancel(L, "consumer1"), "consumer2"),
                "Producer-Consumer demo completed"), t, "finished", "")

\* await queue.join()
DemoJoin(L, t) ==
    LET Q == Touch(L, "queue", t) IN
    IF Q.queue.unfinished > 0
    THEN [Q EXCEPT !.queue.joiners = Append(@, t), !.tasks[t].pc = "join"]
    ELSE DemoFinish(Q, t)

producer_consumer_demo(L, t) ==
    LET T == L.tasks[t] IN
    IF T.must_cancel THEN Cancelled(L, t)
    ELSE CASE T.pc = "start" ->
                Await(CreateTask(CreateTask(CreateTask(
                          [Emit(L, "Producer-Consumer pattern:") EXCEPT !.queue = EmptyQueue],
                          "producer", "producer", "Producer1"),
                          "consumer1", "consumer", "Consumer1"),
                          "consumer2", "consumer", "Consumer2"),
                      t, {"producer"}, "await_producer")
           [] T.pc = "await_producer" -> DemoJoin([L EXCEPT !.tasks[t].wait = {}], t)
           [] OTHER -> DemoFinish(L, t)


\* a whole number of seconds as f"{duration}" prints it (the clock unit is 100 ms)
Seconds(d) == <<"0", "1", "2", "3", "4", "5", "6", "7", "8", "9">>[(d \div 10) + 1]

\* variant of the handler that prints and does not re-raise
LongTaskSwallowsCancel(L, t) ==
    Finish(Emit(L, L.tasks[t].name \o ": Task was cancelled"), t, "finished", "")

\* the except asyncio.CancelledError handler of long_running_task: print, re-raise
LongTaskOnCancel(L, t) ==
    Finish(Emit(L, L.tasks[t].name \o ": Task was cancelled"), t, "cancelled", "")

long_running_task(L, t, duration) ==
    LET T == L.tasks[t] IN
    IF T.pc = "start"
    THEN IF T.must_cancel THEN Cancelled(L, t)   \* cancelled before its first step
         ELSE Sleep(Emit(L, T.name \o ": Starting long task (" \o Seconds(duration) \o "s)"),
                    t, duration, "sleeping")
    ELSE IF T.must_cancel THEN LongTaskOnCancel(L, t)
    ELSE Finish(Emit(L, T.name \o ": Task completed"), t, "finished", T.name \o " finished")

\* asyncio.wait_for(long_running_task("Task1", 3), timeout=2.0), up to its await
WaitForStart(L, t) ==
    Await(CreateTask([L EXCEPT !.timers = @ \cup {[when |-> L.now + WaitForTimeout,
                                                    task |-> t, kind |-> "timeout"]}],
                     "Task1", "long_running_task", "Task1"),
          t, {"Task1"}, "wait_for")

DropTimeout(L, t) ==
    [L EXCEPT !.timers = {tm \in @ : ~(tm.task = t /\ tm.kind = "timeout")}]

\* the second half of timeout_demo: create Task2, sleep, cancel it
CancellationTest(L, t) ==
    Sleep(CreateTask([L EXCEPT !.tasks[t].wait = {}], "Task2", "long_running_task", "Task2"),
          t, CancelAfter, "sleep1")

\* the outcome of wait_for once Task1 is done, as timeout_demo's try/except sees it
WaitForOutcome(L, t, timedOut) ==
    LET L1 == DropTimeout(L, t) IN
    IF L1.tasks["Task1"].st = "finished"
    THEN CancellationTest(Emit(L1, "Result: " \o L1.tasks["Task1"].result), t)
    ELSE IF timedOut
    THEN CancellationTest(Emit(L1, "Task1: Timed out!"), t)
    ELSE Finish(L1, t, "cancelled", "")      \* CancelledError leaves timeout_demo

\* await task, for Task2
AwaitTask2Outcome(L, t) ==
    IF L.tasks["Task2"].st = "cancelled"
    THEN Finish(Emit(L, "Task2: Successfully cancelled"), t, "finished", "")
    ELSE Finish(L, t, "finished", "")

timeout_demo(L, t) ==
    LET T == L.tasks[t] IN
    IF T.must_cancel THEN Cancelled(L, t)
    ELSE CASE T.pc = "start" -> WaitForStart(Emit(L, "Timeout and cancellation demo:"), t)
           [] T.pc = "wait_for" ->
                IF Done(L, "Task1") THEN WaitForOutcome(L, t, FALSE)
                ELSE Await(Cancel(L, "Task1"), t, {"Task1"}, "cancel_wait")
           [] T.pc = "cancel_wait" -> WaitForOutcome(L, t, TRUE)
           [] T.pc = "sleep1" ->
                LET L1 == Cancel(L, "Task2") IN
                IF Done(L1, "Task2") THEN AwaitTask2Outcome(L1, t)
                ELSE Await(L1, t, {"Task2"}, "await_task2")
           [] OTHER -> AwaitTask2Outcome(L, t)

Duration(t) == IF t = "Task1" THEN Task1Duration ELSE Task2Duration

----------------------------------------------------------------------------
(* Strings whose characters matter are sequences of characters *)

UpperCase == <<"A", "B", "C", "D", "E", "F", "G", "H", "I", "J", "K", "L", "M",
               "N", "O", "P", "Q", "R", "S", "T", "U", "V", "W", "X", "Y", "Z">>
LowerCase == <<"a", "b", "c", "d", "e", "f", "g", "h", "i", "j", "k", "l", "m",
               "n", "o", "p", "q", "r", "s", "t", "u", "v", "w", "x", "y", "z">>

\* str.lower()
LowerChar(c) ==
    IF \E k \in DOMAIN UpperCase : UpperCase[k] = c
    THEN LowerCase[CHOOSE k \in DOMAIN UpperCase : UpperCase[k] = c]
    ELSE c
Lower(s) == [k \in 1..Len(s) |-> LowerChar(s[k])]

\* sub in s
Contains(s, sub) ==
    \E k \in 0..(Len(s) - Len(sub)) : SubSeq(s, k + 1, k + Len(sub)) = sub

\* the characters as one string, for printing
RECURSIVE Text(_)
Text(s) == IF s = <<>> THEN "" ELSE s[1] \o Text(Tail(s))

----------------------------------------------------------------------------
(* fetch_url and fetch_multiple_urls of practice_questions.py *)

Urls == { <<"/", "e", "r", "o", "r">>,
          <<"/", "e", "r", "r", "o", "r">>,
          <<"/", "E", "r", "r", "O", "R">> }
UrlLists == UNION {[1..n -> Urls] : n \in 0..MaxUrls}

\* random.uniform(0.5, 2.0) in clock units: the shortest delay and the next one
\* the clock tells apart, so that fetches end together or in either order;
\* random.randint(1000, 10000): its two ends
MinDelay == 5
MinSize == 1000
MaxSize == 10000
Random == [delay : {MinDelay, MinDelay + 1}, size : {MinSize, MaxSize}]

NotFetched == [kind |-> "pending", url |-> <<>>, status |-> "", size |-> 0, delay |-> 0,
               error |-> ""]
NoReturn == [returned |-> FALSE, successful |-> <<>>, failed |-> <<>>, total_time |-> 0,
             total_urls |-> 0]

\* variant of the test that compares the URL as given
FetchFailsCaseSensitive(url) == Contains(url, <<"e", "r", "r", "o", "r">>)

\* "error" in url.lower()
FetchFails(url) == Contains(Lower(url), <<"e", "r", "r", "o", "r">>)

\* fetch_url after its sleep: raise, or draw the size, print and return the response
FetchUrlComplete(L, t, url) ==
    LET i == L.tasks[t].i IN
    IF FetchFails(url)
    THEN Finish([L EXCEPT !.fetched[i] = [NotFetched EXCEPT !.kind = "exception",
                                             !.error = "Failed to fetch " \o Text(url)]],
                t, "finished", "")
    ELSE Finish(Emit([L EXCEPT !.rnd[i].size = L.draw.size,
                               !.fetched[i] = [NotFetched EXCEPT !.kind = "result",
                                                  !.url = url, !.status = "success",
                                                  !.size = L.draw.size,
                                                  !.delay = L.rnd[i].delay]],
                     "Completed fetching: " \o Text(url)),
                t, "finished", "")

\* a task that ends with an exception is done like one that returns
fetch_url(L, t) ==
    LET T == L.tasks[t] IN
    IF T.must_cancel THEN Cancelled(L, t)
    ELSE IF T.pc = "start"
    THEN Sleep(Emit([L EXCEPT !.rnd[T.i].delay = L.draw.delay],
                    "Starting to fetch: " \o Text(urls[T.i])),
               t, L.draw.delay, "sleeping")
    ELSE FetchUrlComplete(L, t, urls[T.i])

\* tasks = [asyncio.create_task(fetch_url(url)) for url in urls], from index i on
RECURSIVE CreateFetchTasks(_, _)
CreateFetchTasks(L, i) ==
    IF i > Len(urls) THEN L
    ELSE CreateFetchTasks([CreateTask(L, FetchTask(i), "fetch_url", FetchTask(i))
                              EXCEPT !.tasks[FetchTask(i)].i = i],
                          i + 1)

\* for i, result in enumerate(results): ..., from index i on
RECURSIVE ProcessResults(_, _, _)
ProcessResults(results, i, acc) ==
    IF i > Len(results) THEN acc
    ELSE IF results[i].kind = "exception"
    THEN ProcessResults(results, i + 1,
                        [acc EXCEPT !.failed = Append(@, [url |-> urls[i],
                                                          error |-> results[i].error])])
    ELSE ProcessResults(results, i + 1,
                        [acc EXCEPT !.successful = Append(@, results[i])])

\* fetch_multiple_urls after gather: results are in the order of the tasks given
FetchReturn(L, t) ==
    Finish([L EXCEPT !.ret = ProcessResults([i \in 1..Len(urls) |-> L.fetched[i]], 1,
                                 [NoReturn EXCEPT !.returned = TRUE,
                                                  !.total_time = L.now - L.tasks[t].i,
                                                  !.total_urls = Len(urls)])],
           t, "finished", "")

\* the task keeps start_time in its counter; gather() of no task is done at once
fetch_multiple_urls(L, t) ==
    LET T == L.tasks[t] IN
    IF T.must_cancel THEN Cancelled(L, t)
    ELSE IF T.pc = "start"
    THEN LET L1 == CreateFetchTasks([Emit(L, "Fetching " \o Digits[Len(urls) + 1]
                                                \o " URLs concurrently...")
                                        EXCEPT !.tasks[t].i = L.now], 1)
         IN  IF urls = <<>> THEN FetchReturn(L1, t)
             ELSE Await(L1, t, {FetchTask(i) : i \in 1..Len(urls)}, "gather")
    ELSE FetchReturn(L, t)

\* one step of the task at the head of the ready queue
StepTask(L, t) ==
    LET c == L.tasks[t].coro IN
    CASE c = "hello_async" -> hello_async(L, t)
      [] c = "async_task" -> async_task(L, t)
      [] c = "run_async_tasks" -> run_async_tasks(L, t)
      [] c = "async_context_demo" -> async_context_demo(L, t)
      [] c = "producer" -> producer(L, t)
      [] c = "consumer" -> consumer(L, t)
      [] c = "producer_consumer_demo" -> producer_consumer_demo(L, t)
      [] c = "long_running_task" -> long_running_task(L, t, Duration(t))
      [] c = "timeout_demo" -> timeout_demo(L, t)
      [] c = "fetch_url" -> fetch_url(L, t)
      [] c = "fetch_multiple_urls" -> fetch_multiple_urls(L, t)


----------------------------------------------------------------------------
(* filter_error_logs of practice_questions.py.  A text file is the sequence *)
(* of its characters.                                                       *)

LogTexts == { <<"E", "R", "R", "O", "R">>,
              <<"a", " ", "E", "R", "R", "O", "R", "!">>,
              <<"e", "r", "r", "o", "r">>,
              <<"E", "R", "R", "O">> }
Terminators == { <<"\n">>, <<"\r", "\n">>, <<"\r">> }

RECURSIVE Flatten(_)
Flatten(ss) == IF ss = <<>> THEN <<>> ELSE Head(ss) \o Flatten(Tail(ss))

\* the files of n lines; only the last line may lack its terminator
FilesOfLines(n) ==
    { Flatten([k \in 1..n |-> t[k] \o e[k]]) :
        t \in [1..n -> LogTexts],
        e \in { f \in [1..n -> Terminators \cup {<<>>}] :
                   \A k \in 1..(n - 1) : f[k] # <<>> } }
LogContents == UNION {FilesOfLines(n) : n \in 0..MaxLines}

NoDisk == [p \in {} |-> <<>>]
\* log.txt exists or not; errors.log is absent or left over from an earlier run
Disks ==
    {NoDisk} \cup
    { [p \in ({"log.txt"} \cup old) |-> IF p = "log.txt" THEN c ELSE <<"o", "l", "d", "\n">>] :
        c \in LogContents, old \in {{}, {"errors.log"}} }

\* text mode with newline=None: "\r\n" and "\r" are read as "\n"
RECURSIVE UniversalNewlines(_)
UniversalNewlines(cs) ==
    IF cs = <<>> THEN <<>>
    ELSE IF cs[1] = "\r"
    THEN <<"\n">> \o UniversalNewlines(IF Len(cs) > 1 /\ cs[2] = "\n" THEN Tail(Tail(cs))
                                        ELSE Tail(cs))
    ELSE <<cs[1]>> \o UniversalNewlines(Tail(cs))

\* for line in infile: the text cut after each "\n"
RECURSIVE SplitLines(_, _)
SplitLines(cs, line) ==
    IF cs = <<>> THEN (IF line = <<>> THEN <<>> ELSE <<line>>)
    ELSE IF cs[1] = "\n" THEN <<Append(line, "\n")>> \o SplitLines(Tail(cs), <<>>)
    ELSE SplitLines(Tail(cs), Append(line, cs[1]))

ReadLines(cs) == SplitLines(UniversalNewlines(cs), <<>>)

\* variant of the test that ignores case
IsErrorLineAnyCase(line) == Contains(Lower(line), <<"e", "r", "r", "o", "r">>)

\* "ERROR" in line
IsErrorLine(line) == Contains(line, <<"E", "R", "R", "O", "R">>)

FilterResult(st, disk, value) == [st |-> st, content |-> disk, value |-> value]

\* except FileNotFoundError: print, return 0
FilterNotFound(st, disk, input_file) ==
    FilterResult([st EXCEPT !.out = Append(@, "File " \o input_file \o " not found"),
                            !.exc = NoExc], disk, 0)

\* the input is opened first; opening the output empties it; os.linesep is "\n"
filter_error_logs(st, disk, input_file, output_file) ==
    LET r == OpenRead(st, input_file)
        w == OpenWrite(r, output_file, rofiles)
        emptied == [p \in DOMAIN disk \cup {output_file} |->
                      IF p = output_file THEN <<>> ELSE disk[p]]
        error_lines == SelectSeq(ReadLines(emptied[input_file]), IsErrorLine)
    IN  IF r.exc = "FileNotFoundError" \/ w.exc = "FileNotFoundError"
        THEN FilterNotFound(st, disk, input_file)
        ELSE IF w.exc # NoExc THEN FilterResult(w, disk, 0)
        ELSE FilterResult(w, [emptied EXCEPT ![output_file] = Flatten(error_lines)],
                          Len(error_lines))

NotFiltered == [called |-> FALSE, input_file |-> "", output_file |-> "", value |-> 0,
                exc |-> NoExc, before |-> NoDisk]

----------------------------------------------------------------------------
(* The Fibonacci generators of practice_questions.py.  A generator is its   *)
(* locals, where it stands (created, suspended at the yield, done) and what *)
(* next() has returned so far.                                              *)

MaxValues == -1..MaxValue

NewGen == [a |-> 0, b |-> 1, state |-> "created", yielded |-> <<>>]
NewFib(m) == [max_value |-> m, generator |-> NewGen, up_to |-> NewGen]
NoFib == NewFib(0)

\* variant with the loop condition a < max_value
fibonacci_generator_exclusive(g, max_value) ==
    LET a == IF g.state = "created" THEN 0 ELSE g.b
        b == IF g.state = "created" THEN 1 ELSE g.a + g.b
    IN  IF g.state = "done" THEN g
        ELSE IF a < max_value
        THEN [g EXCEPT !.a = a, !.b = b, !.state = "suspended", !.yielded = Append(@, a)]
        ELSE [g EXCEPT !.a = a, !.b = b, !.state = "done"]

\* next() on fibonacci_generator(max_value): run to the next yield or to the end;
\* resuming after the yield does a, b = b, a + b
fibonacci_generator(g, max_value) ==
    LET a == IF g.state = "created" THEN 0 ELSE g.b
        b == IF g.state = "created" THEN 1 ELSE g.a + g.b
    IN  IF g.state = "done" THEN g
        ELSE IF a <= max_value
        THEN [g EXCEPT !.a = a, !.b = b, !.state = "suspended", !.yielded = Append(@, a)]
        ELSE [g EXCEPT !.a = a, !.b = b, !.state = "done"]

\* next() on DataProcessor.fibonacci_up_to(max_val)
fibonacci_up_to(g, max_val) ==
    LET a == IF g.state = "created" THEN 0 ELSE g.b
        b == IF g.state = "created" THEN 1 ELSE g.a + g.b
    IN  IF g.state = "done" THEN g
        ELSE IF a <= max_val
        THEN [g EXCEPT !.a = a, !.b = b, !.state = "suspended", !.yielded = Append(@, a)]
        ELSE [g EXCEPT !.a = a, !.b = b, !.state = "done"]

----------------------------------------------------------------------------
(* CountDown of 14_generators_iteration.py.  __iter__ returns the object    *)
(* itself, so every loop over it calls __next__ on the same state.          *)

Starts == -1..MaxStart

\* __init__; n keeps the argument, stops counts the StopIterations raised
CountDown(n) == [start |-> n, n |-> n, yielded |-> <<>>, stops |-> 0]
NoCountDown == CountDown(0)

\* variant that returns self.start after the decrement
CountDown_next_off_by_one(c) ==
    IF c.start <= 0 THEN [c EXCEPT !.stops = @ + 1]
    ELSE [c EXCEPT !.start = @ - 1, !.yielded = Append(@, c.start - 1)]

\* __next__: raise StopIteration, or decrement and return self.start + 1
CountDown_next(c) ==
    IF c.start <= 0 THEN [c EXCEPT !.stops = @ + 1]
    ELSE [c EXCEPT !.start = @ - 1, !.yielded = Append(@, (c.start - 1) + 1)]

BankEntries == {"bank10", "bank11", "bank12", "bankPQ"}

----------------------------------------------------------------------------
(* The BankAccount classes.  A call returns the account after it and what *)
(* the caller sees: a returned value or message, or a raised ValueError.   *)

Pins == {"1234", "0000"}
Amounts == -1..MaxAmount
InitialBalances == -1..MaxInitial
Holders == {<<"A">>, <<"O", "'", "B">>}

NoAcct == [class |-> "", holder |-> <<>>, balance |-> 0, history |-> <<>>,
           pin |-> "", count |-> 0]

Entry(kind, amount) == [kind |-> kind, amount |-> amount]
Return(a, text, value) == [acct |-> a, kind |-> "return", text |-> text, value |-> value]
Raise(a, text) == [acct |-> a, kind |-> "raise", text |-> text, value |-> 0]

(* 11_oop_fundamentals.py *)
BankAccount_11(holder, initial) ==
    [NoAcct EXCEPT !.class = "11", !.holder = holder, !.balance = initial,
                   !.history = IF initial > 0 THEN <<Entry("Initial deposit", initial)>>
                               ELSE <<>>]

deposit_11(a, amount) ==
    IF amount <= 0 THEN Return(a, "Deposit amount must be positive", 0)
    ELSE LET b == [a EXCEPT !.balance = @ + amount,
                            !.history = Append(@, Entry("Deposit", amount))]
         IN  Return(b, "Deposited", b.balance)

withdraw_11(a, amount) ==
    IF amount <= 0 THEN Return(a, "Withdrawal amount must be positive", 0)
    ELSE IF amount > a.balance THEN Return(a, "Insufficient funds", 0)
    ELSE LET b == [a EXCEPT !.balance = @ - amount,
                            !.history = Append(@, Entry("Withdrawal", amount))]
         IN  Return(b, "Withdrew", b.balance)

(* 12_oop_principles.py *)
BankAccount_12(number, initial) ==
    [NoAcct EXCEPT !.class = "12", !.holder = number, !.balance = initial,
                   !.pin = "1234", !.count = 0]

\* variant of deposit that does not count the transaction
deposit_12_uncounted(a, amount) ==
    IF amount <= 0 THEN Raise(a, "Deposit amount must be positive")
    ELSE LET b == [a EXCEPT !.balance = @ + amount]
         IN  Return(b, "Deposited", b.balance)

deposit_12(a, amount) ==
    IF amount <= 0 THEN Raise(a, "Deposit amount must be positive")
    ELSE LET b == [a EXCEPT !.balance = @ + amount, !.count = @ + 1]
         IN  Return(b, "Deposited", b.balance)

\* variant of withdraw that counts the call before validating it
withdraw_12_counts_first(a, amount, pin) ==
    LET c == [a EXCEPT !.count = @ + 1] IN
    IF pin # a.pin THEN Return(c, "Invalid PIN", 0)
    ELSE IF amount <= 0 THEN Return(c, "Withdrawal amount must be positive", 0)
    ELSE IF amount > a.balance THEN Return(c, "Insufficient funds", 0)
    ELSE Return([c EXCEPT !.balance = @ - amount], "Withdrew", a.balance - amount)

withdraw_12(a, amount, pin) ==
    IF pin # a.pin THEN Return(a, "Invalid PIN", 0)
    ELSE IF amount <= 0 THEN Return(a, "Withdrawal amount must be positive", 0)
    ELSE IF amount > a.balance THEN Return(a, "Insufficient funds", 0)
    ELSE LET b == [a EXCEPT !.balance = @ - amount, !.count = @ + 1]
         IN  Return(b, "Withdrew", b.balance)

\* variant of change_pin that does not compare old_pin
change_pin_12_unchecked(a, old, new) ==
    Return([a EXCEPT !.pin = new], "PIN changed successfully", 0)

change_pin_12(a, old, new) ==
    IF old # a.pin THEN Return(a, "Invalid current PIN", 0)
    ELSE Return([a EXCEPT !.pin = new], "PIN changed successfully", 0)

(* 10_pep8_code_style.py *)
BankAccount_10(number, initial) ==
    [NoAcct EXCEPT !.class = "10", !.holder = number, !.balance = initial]

\* variant of deposit that overwrites the balance
deposit_10_overwrites(a, amount) ==
    IF amount <= 0 THEN Raise(a, "Deposit amount must be positive")
    ELSE LET b == [a EXCEPT !.balance = amount,
                            !.history = Append(@, Entry("Deposit", amount))]
         IN  Return(b, "", b.balance)

deposit_10(a, amount) ==
    IF amount <= 0 THEN Raise(a, "Deposit amount must be positive")
    ELSE LET b == [a EXCEPT !.balance = @ + amount,
                            !.history = Append(@, Entry("Deposit", amount))]
         IN  Return(b, "", b.balance)

withdraw_10(a, amount) ==
    IF amount <= 0 THEN Raise(a, "Withdrawal amount must be positive")
    ELSE IF amount > a.balance THEN Raise(a, "Insufficient funds")
    ELSE LET b == [a EXCEPT !.balance = @ - amount,
                            !.history = Append(@, Entry("Withdrawal", amount))]
         IN  Return(b, "", b.balance)

(* practice_questions.py *)
BankAccount_PQ(holder, initial) ==
    [NoAcct EXCEPT !.class = "PQ", !.holder = holder, !.balance = initial]

deposit_PQ(a, amount) ==
    IF amount <= 0 THEN Raise(a, "Deposit amount must be positive")
    ELSE LET b == [a EXCEPT !.balance = @ + amount,
                            !.history = Append(@, Entry("Deposit", amount))]
         IN  Return(b, "", b.balance)

\* variant of withdraw without the funds check
withdraw_PQ_overdraws(a, amount) ==
    IF amount <= 0 THEN Raise(a, "Withdrawal amount must be positive")
    ELSE LET b == [a EXCEPT !.balance = @ - amount,
                            !.history = Append(@, Entry("Withdrawal", amount))]
         IN  Return(b, "", b.balance)

withdraw_PQ(a, amount) ==
    IF amount <= 0 THEN Raise(a, "Withdrawal amount must be positive")
    ELSE IF amount > a.balance THEN Raise(a, "Insufficient funds")
    ELSE LET b == [a EXCEPT !.balance = @ - amount,
                            !.history = Append(@, Entry("Withdrawal", amount))]
         IN  Return(b, "", b.balance)

(* __repr__ and eval of practice_questions.py, character by character *)
IsDigit(c) == \E d \in 1..10 : Digits[d] = c
DigitValue(c) == (CHOOSE d \in 1..10 : Digits[d] = c) - 1

\* str(n) of an int
RECURSIVE NatChars(_)
NatChars(n) == IF n < 10 THEN <<Digits[n + 1]>> ELSE Append(NatChars(n \div 10), Digits[(n % 10) + 1])
IntChars(n) == IF n < 0 THEN <<"-">> \o NatChars(-n) ELSE NatChars(n)

\* f"BankAccount('{self.account_holder}', {self.balance})"
repr_PQ(a) ==
    <<"BankAccount(", "'">> \o a.holder \o <<"'", ",", " ">> \o IntChars(a.balance) \o <<")">>

\* index of the first c in s at or after position k, 0 when there is none
RECURSIVE Find(_, _, _)
Find(s, c, k) == IF k > Len(s) THEN 0 ELSE IF s[k] = c THEN k ELSE Find(s, c, k + 1)

RECURSIVE NatValue(_)
NatValue(ds) == IF ds = <<>> THEN 0 ELSE 10 * NatValue(SubSeq(ds, 1, Len(ds) - 1)) + DigitValue(ds[Len(ds)])

\* an int literal, optionally negated
IsIntLiteral(ds) ==
    LET body == IF ds # <<>> /\ ds[1] = "-" THEN Tail(ds) ELSE ds
    IN  body # <<>> /\ \A k \in 1..Len(body) : IsDigit(body[k])
IntValue(ds) == IF ds[1] = "-" THEN -NatValue(Tail(ds)) ELSE NatValue(ds)

SyntaxError == [ok |-> FALSE, acct |-> NoAcct]

\* eval(text): the call BankAccount('<string literal>', <int literal>), or a SyntaxError
EvalRepr(s) ==
    IF Len(s) < 3 \/ s[1] # "BankAccount(" \/ s[2] # "'" THEN SyntaxError
    ELSE LET q == Find(s, "'", 3) IN      \* the quote closing the string literal
         IF q = 0 \/ Len(s) < q + 4 \/ s[q + 1] # "," \/ s[q + 2] # " " \/ s[Len(s)] # ")"
         THEN SyntaxError
         ELSE LET num == SubSeq(s, q + 3, Len(s) - 1) IN
              IF ~IsIntLiteral(num) THEN SyntaxError
              ELSE [ok |-> TRUE, acct |-> BankAccount_PQ(SubSeq(s, 3, q - 1), IntValue(num))]

(* the class under test *)
BankAccount(class, holder, initial) ==
    CASE class = "bank10" -> BankAccount_10(holder, initial)
      [] class = "bank11" -> BankAccount_11(holder, initial)
      [] class = "bank12" -> BankAccount_12(holder, initial)
      [] class = "bankPQ" -> BankAccount_PQ(holder, initial)

deposit(a, amount) ==
    CASE a.class = "10" -> deposit_10(a, amount)
      [] a.class = "11" -> deposit_11(a, amount)
      [] a.class = "12" -> deposit_12(a, amount)
      [] a.class = "PQ" -> deposit_PQ(a, amount)

withdraw(a, amount, pin) ==
    CASE a.class = "10" -> withdraw_10(a, amount)
      [] a.class = "11" -> withdraw_11(a, amount)
      [] a.class = "12" -> withdraw_12(a, amount, pin)
      [] a.class = "PQ" -> withdraw_PQ(a, amount)

Call(op, amount, pin, r, pre) ==
    [op |-> op, amount |-> amount, pin |-> pin, kind |-> r.kind, text |-> r.text,
     value |-> r.value, pre |-> pre, new |-> ""]
NoCall == Call("", 0, "", Return(NoAcct, "", 0), NoAcct)

AtBank == status = "running" /\ entry \in BankEntries /\ pc <= MaxOps

BankCall(op, amount, pin, r) ==
    /\ acct' = r.acct
    /\ last' = Call(op, amount, pin, r, acct)
    /\ calls' = Append(calls, Call(op, amount, pin, r, acct))
    /\ pc' = pc + 1
    /\ UNCHANGED <<entry, status, exc, fsVars, out, loopVars, fnVars>>

BankDeposit ==
    /\ AtBank
    /\ \E amount \in Amounts : BankCall("deposit", amount, "", deposit(acct, amount))

\* the classes without a PIN take no pin argument
BankWithdraw ==
    /\ AtBank
    /\ \E amount \in Amounts, pin \in (IF acct.class = "12" THEN Pins ELSE {""}) :
         BankCall("withdraw", amount, pin, withdraw(acct, amount, pin))

BankChangePin ==
    /\ AtBank /\ acct.class = "12"
    /\ \E old \in Pins, new \in Pins :
         /\ acct' = change_pin_12(acct, old, new).acct
         /\ last' = [Call("change_pin", 0, old, change_pin_12(acct, old, new), acct)
                       EXCEPT !.value = 0, !.new = new]
         /\ calls' = Append(calls, [Call("change_pin", 0, old,
                                          change_pin_12(acct, old, new), acct)
                                       EXCEPT !.value = 0, !.new = new])
         /\ pc' = pc + 1
         /\ UNCHANGED <<entry, status, exc, fsVars, out, loopVars, fnVars>>

----------------------------------------------------------------------------
(* Actions: running a script *)

\* entry points driven call by call rather than run as a script
CallEntries == BankEntries \cup {"filter_error_logs", "fibonacci", "CountDown"}
FunctionEntries == {"timeout_demo", "fetch_multiple_urls"}
Entries == Scripts \cup FunctionEntries \cup CallEntries

LoopIdle == tasks["main"].st = "absent"
AtStmt == status = "running" /\ entry \notin CallEntries /\ pc <= Len(Program(entry))

\* a top-level statement other than asyncio.run(...)
ScriptStmt ==
    /\ AtStmt /\ LoopIdle
    /\ ~IsAsyncioRun(Program(entry)[pc])
    /\ LET st == ExecStmt(Env(files, created, names, modules, out, NoExc),
                          Program(entry)[pc], rofiles)
       IN  /\ files' = st.files
           /\ created' = st.created
           /\ names' = st.names
           /\ modules' = st.modules
           /\ out' = st.out
           /\ exc' = st.exc
           /\ status' = IF st.exc = NoExc THEN "running" ELSE "raised"
           /\ pc' = IF st.exc = NoExc THEN pc + 1 ELSE pc
    /\ UNCHANGED <<entry, rofiles, loopVars, bankVars, fnVars>>

\* the interpreter reaches the end of the file
ScriptExit ==
    /\ status = "running" /\ entry \notin CallEntries /\ LoopIdle
    /\ pc > Len(Program(entry))
    /\ status' = "exited"
    /\ UNCHANGED <<entry, pc, exc, fsVars, out, loopVars, bankVars, fnVars>>

\* asyncio.run(coro()): a new event loop with the coroutine as its main task
AsyncioRun ==
    /\ AtStmt /\ LoopIdle
    /\ IsAsyncioRun(Program(entry)[pc])
    /\ tasks' = [NoLoopTasks EXCEPT !["main"] = NewTask(Program(entry)[pc].body[1].path, "main")]
    /\ ready' = <<"main">>
    /\ timers' = {}
    /\ now' = 0
    /\ queue' = EmptyQueue
    /\ UNCHANGED <<entry, pc, status, exc, fsVars, out, accessed, bankVars, fnVars>>

\* asyncio.run returns once the main task is done; the loop is closed
LoopExit ==
    /\ status = "running" /\ ~LoopIdle
    /\ tasks["main"].st \in {"finished", "cancelled"}
    /\ tasks' = NoLoopTasks
    /\ ready' = <<>>
    /\ timers' = {}
    /\ now' = 0
    /\ queue' = EmptyQueue
    /\ IF tasks["main"].st = "finished"
       THEN pc' = pc + 1 /\ UNCHANGED <<status, exc>>
       ELSE status' = "raised" /\ exc' = "CancelledError" /\ pc' = pc
    /\ UNCHANGED <<entry, fsVars, out, accessed, bankVars, fnVars>>

(* Actions: the event loop *)

\* time passes while a timer is still to come
Tick ==
    /\ status = "running" /\ ~LoopIdle
    /\ \E tm \in timers : tm.when > now
    /\ now' = now + 1
    /\ UNCHANGED <<entry, pc, status, exc, fsVars, out, tasks, ready, timers, queue,
                   accessed, bankVars, fnVars>>

\* the earliest due timer handle runs: a sleeping task, or wait_for's waiter, wakes
FireTimer ==
    /\ status = "running" /\ ~LoopIdle
    /\ \E tm \in timers :
         /\ tm.when <= now
         /\ \A o \in timers : o.when >= tm.when
         /\ timers' = timers \ {tm}
         /\ ready' = IF InSeq(ready, tm.task) THEN ready ELSE Append(ready, tm.task)
    /\ UNCHANGED <<entry, pc, status, exc, fsVars, out, tasks, now, queue, accessed, bankVars,
                   fnVars>>

\* the handle at the head of the ready queue belongs to a task of coroutine c
HeadIs(c) == status = "running" /\ ~LoopIdle /\ ready # <<>> /\ tasks[Head(ready)].coro = c

\* the handle at the head of the ready queue runs: one step of its task
RunHeadWith(draw) ==
    /\ ready # <<>>
    /\ LET L == StepTask([Loop EXCEPT !.ready = Tail(@), !.draw = draw], Head(ready))
       IN  /\ tasks' = L.tasks
           /\ ready' = L.ready
           /\ timers' = L.timers
           /\ queue' = L.queue
           /\ accessed' = L.accessed
           /\ out' = L.out
           /\ files' = L.files
           /\ created' = L.created
           /\ fetched' = L.fetched
           /\ ret' = L.ret
           /\ rnd' = L.rnd
    /\ UNCHANGED <<entry, pc, status, exc, rofiles, names, modules, now, bankVars,
                   urls, logVars, genVars>>

RunHead == RunHeadWith(NoDraw)

StepHelloAsync == HeadIs("hello_async") /\ RunHead
StepAsyncTask == HeadIs("async_task") /\ RunHead
StepRunAsyncTasks == HeadIs("run_async_tasks") /\ RunHead
StepAsyncContextDemo == HeadIs("async_context_demo") /\ RunHead
StepProducer == HeadIs("producer") /\ RunHead
StepConsumer == HeadIs("consumer") /\ RunHead
StepProducerConsumerDemo == HeadIs("producer_consumer_demo") /\ RunHead
StepLongRunningTask == HeadIs("long_running_task") /\ RunHead
StepTimeoutDemo == HeadIs("timeout_demo") /\ RunHead
StepFetchUrl == HeadIs("fetch_url") /\ \E draw \in Random : RunHeadWith(draw)
StepFetchMultipleUrls == HeadIs("fetch_multiple_urls") /\ RunHead

(* Actions: calls of the functions under test *)

\* error_count = filter_error_logs(input_file, output_file), called once
FilterErrorLogs ==
    /\ status = "running" /\ entry = "filter_error_logs" /\ ~filtered.called
    /\ \E input_file \in {"log.txt", "missing.txt"},
          output_file \in {"errors.log", "log.txt", "logs/errors.log"} :
         LET r == filter_error_logs(Env(files, created, names, modules, out, NoExc),
                                    content, input_file, output_file)
         IN  /\ files' = r.st.files
             /\ created' = r.st.created
             /\ out' = r.st.out
             /\ exc' = r.st.exc
             /\ status' = IF r.st.exc = NoExc THEN "running" ELSE "raised"
             /\ content' = r.content
             /\ filtered' = [called |-> TRUE, input_file |-> input_file,
                             output_file |-> output_file, value |-> r.value,
                             exc |-> r.st.exc, before |-> content]
    /\ pc' = pc + 1
    /\ UNCHANGED <<entry, rofiles, names, modules, loopVars, bankVars, fetchVars, genVars>>

\* next() on the generator made by fibonacci_generator(max_value)
FibonacciGeneratorNext ==
    /\ status = "running" /\ entry = "fibonacci" /\ fib.generator.state # "done"
    /\ fib' = [fib EXCEPT !.generator = fibonacci_generator(@, fib.max_value)]
    /\ UNCHANGED <<entry, pc, status, exc, fsVars, out, loopVars, bankVars, fetchVars,
                   logVars, countdown>>

\* next() on the generator made by DataProcessor.fibonacci_up_to(max_val)
FibonacciUpToNext ==
    /\ status = "running" /\ entry = "fibonacci" /\ fib.up_to.state # "done"
    /\ fib' = [fib EXCEPT !.up_to = fibonacci_up_to(@, fib.max_value)]
    /\ UNCHANGED <<entry, pc, status, exc, fsVars, out, loopVars, bankVars, fetchVars,
                   logVars, countdown>>

\* next() on the CountDown object, also after it has raised StopIteration
CountDownNext ==
    /\ status = "running" /\ entry = "CountDown" /\ countdown.stops < MaxNext
    /\ countdown' = CountDown_next(countdown)
    /\ UNCHANGED <<entry, pc, status, exc, fsVars, out, loopVars, bankVars, fetchVars,
                   logVars, fib>>

----------------------------------------------------------------------------
Init ==
    /\ entry \in Entries
    /\ pc = 1
    /\ status = "running"
    /\ exc = NoExc
    /\ rofiles \in (IF entry = "08" THEN {{}, {"readonly.txt"}} ELSE {{}})
    /\ content \in (IF entry = "filter_error_logs" THEN Disks ELSE {NoDisk})
    /\ files = rofiles \cup DOMAIN content
    /\ created = {}
    /\ names = {}
    /\ modules = {}
    /\ out = <<>>
    /\ tasks = NoLoopTasks
    /\ ready = <<>>
    /\ timers = {}
    /\ now = 0
    /\ queue = EmptyQueue
    /\ accessed = NoAccess
    /\ acct \in (IF entry \in BankEntries
                 THEN {BankAccount(entry, h, b) : h \in (IF entry = "bankPQ" THEN Holders ELSE {<<"A">>}),
                                          b \in InitialBalances}
                 ELSE {NoAcct})
    /\ last = NoCall
    /\ calls = <<>>
    /\ urls \in (IF entry = "fetch_multiple_urls" THEN UrlLists ELSE {<<>>})
    /\ rnd = [i \in 1..Len(urls) |-> NoDraw]
    /\ fetched = [i \in 1..Len(urls) |-> NotFetched]
    /\ ret = NoReturn
    /\ filtered = NotFiltered
    /\ fib \in (IF entry = "fibonacci" THEN {NewFib(m) : m \in MaxValues} ELSE {NoFib})
    /\ countdown \in (IF entry = "CountDown" THEN {CountDown(n) : n \in Starts}
                      ELSE {NoCountDown})

Next ==
    \/ ScriptStmt
    \/ ScriptExit
    \/ AsyncioRun
    \/ LoopExit
    \/ Tick
    \/ FireTimer
    \/ StepHelloAsync
    \/ StepAsyncTask
    \/ StepRunAsyncTasks
    \/ StepAsyncContextDemo
    \/ StepProducer
    \/ StepConsumer
    \/ StepProducerConsumerDemo
    \/ StepLongRunningTask
    \/ StepTimeoutDemo
    \/ StepFetchUrl
    \/ StepFetchMultipleUrls
    \/ FilterErrorLogs
    \/ FibonacciGeneratorNext
    \/ FibonacciUpToNext
    \/ CountDownNext
    \/ BankDeposit
    \/ BankWithdraw
    \/ BankChangePin

Spec == Init /\ [][Next]_vars


----------------------------------------------------------------------------
(* Properties *)

\* index of the first x in s, 0 when there is none
RECURSIVE IndexFrom(_, _, _)
IndexFrom(s, x, k) == IF k > Len(s) THEN 0 ELSE IF s[k] = x THEN k ELSE IndexFrom(s, x, k + 1)
IndexOf(s, x) == IndexFrom(s, x, 1)
Printed(x) == IndexOf(out, x) > 0
Before(x, y) == Printed(x) /\ Printed(y) /\ IndexOf(out, x) < IndexOf(out, y)

\* the event loop waits forever: nothing is ready, no timer is pending, main is not done
Hung ==
    /\ status = "running" /\ ~LoopIdle
    /\ ready = <<>> /\ timers = {}
    /\ tasks["main"].st = "pending"

\* C1: every script run directly reaches its last statement and exits normally:
\* no top-level statement raises an uncaught exception and no script waits forever.
C1_EveryScriptExitsNormally ==
    entry \in Scripts => status # "raised" /\ ~Hung

\* C2: when a script finishes, every file it created in the working directory
\* has been deleted by it.
C2_CreatedFilesDeleted ==
    (entry \in Scripts /\ status = "exited") => created \cap files = {}

\* C3: the packaging script writes the sample package, then imports and uses it,
\* then deletes it: at its end neither my_sample_package (with its contents) nor
\* requirements.txt exists.
C3_PackageWrittenUsedDeleted ==
    (entry = "09" /\ status = "exited") =>
        /\ files \cap ({PkgDir, "requirements.txt"} \cup PkgFiles) = {}
        /\ PkgDir \in modules
        /\ Before("Created sample package structure", "Calculator: 5 + 3 = 8")
        /\ Before("Calculator: 5 + 3 = 8", "Greeting: Hello, Python Developer!")
        /\ Before("Greeting: Hello, Python Developer!", "Cleaned up sample files")

C3_Witness == entry = "09" /\ status = "exited" /\ PkgCache \in created

\* C4: producer_consumer_demo always completes: whenever its event loop has
\* nothing left to run, the demo has printed 'Producer-Consumer demo completed'
\* and its main task is finished.
C4_ProducerConsumerCompletes ==
    (tasks["main"].coro = "producer_consumer_demo" /\ ready = <<>> /\ timers = {}) =>
        /\ tasks["main"].st = "finished"
        /\ Printed("Producer-Consumer demo completed")

C6_SequentialThenConcurrent ==
    /\ \A p \in {<<"A", "B">>, <<"B", "C">>} :
         Printed("Sync task " \o p[2] \o " started") =>
             /\ Before("Sync task " \o p[1] \o " started", "Sync task " \o p[1] \o " completed")
             /\ Before("Sync task " \o p[1] \o " completed", "Sync task " \o p[2] \o " started")
    /\ \A x \in {"A", "B", "C"}, y \in {"A", "B", "C"} :
         Printed("Async task " \o y \o " completed") =>
             Before("Async task " \o x \o " started", "Async task " \o y \o " completed")
    /\ \A x \in {"A", "B", "C"} :
         /\ Printed("Async total time") =>
                Before("Async task " \o x \o " completed", "Async total time")
         /\ (tasks["main"].coro = "run_async_tasks" /\ tasks["main"].st = "finished") =>
                tasks[x].st = "finished"

C6_Witness ==
    /\ Printed("Sync task C completed")
    /\ tasks["main"].coro = "run_async_tasks" /\ tasks["main"].st = "finished"
    /\ Before("Async task C completed", "Async task A completed")

IsBank == entry \in BankEntries

\* C7: in every BankAccount class, a deposit of an amount > 0 increases the
\* balance by exactly that amount, whatever calls preceded it.
C7_DepositAddsAmount ==
    (IsBank /\ last.op = "deposit" /\ last.amount > 0) =>
        acct.balance = last.pre.balance + last.amount

C7_Witness ==
    /\ IsBank /\ pc > 2
    /\ last.op = "deposit" /\ last.amount > 0
    /\ last.pre.balance # 0

\* the call was one the class must reject
Rejected(c) ==
    \/ c.op = "deposit" /\ c.amount <= 0
    \/ c.op = "withdraw" /\ (\/ c.amount <= 0
                             \/ c.amount > c.pre.balance
                             \/ c.pre.class = "12" /\ c.pin # c.pre.pin)

ErrorTexts == {"Deposit amount must be positive", "Withdrawal amount must be positive",
               "Insufficient funds", "Invalid PIN"}

\* the classes whose method raises ValueError; the others return the message
Raises(c) == c.pre.class \in {"10", "PQ"} \/ (c.pre.class = "12" /\ c.op = "deposit")

\* C8: a rejected deposit or withdrawal reports the error (a returned message or
\* a ValueError, depending on the class) and leaves balance, transaction history
\* and transaction count as they were.
C8_RejectedCallChangesNothing ==
    (IsBank /\ Rejected(last)) =>
        /\ last.text \in ErrorTexts
        /\ last.kind = (IF Raises(last) THEN "raise" ELSE "return")
        /\ acct = last.pre

C8_Witness ==
    /\ IsBank /\ Rejected(last)
    /\ last.pre.class = "12" /\ last.op = "withdraw" /\ last.pin # last.pre.pin
    /\ last.amount > 0 /\ last.amount <= last.pre.balance
    /\ last.pre.count > 0

\* C9: for the practice-questions BankAccount, eval(repr(account)) is an account
\* with the same account_holder, balance and transaction_history.
C9_ReprRecreatesAccount ==
    entry = "bankPQ" =>
        /\ EvalRepr(repr_PQ(acct)).ok
        /\ EvalRepr(repr_PQ(acct)).acct = acct

\* C10: in timeout_demo the task that outlasts the wait_for timeout is cancelled:
\* it prints 'Task was cancelled' before the caller prints 'Timed out!' and never
\* prints 'Task completed'; the task cancelled with cancel() while it sleeps
\* prints 'Task was cancelled', its awaiter gets CancelledError, and it never
\* returns a result.
C10_TimeoutAndCancel ==
    /\ ~Printed("Task1: Task completed")
    /\ ~Printed("Task2: Task completed")
    /\ ~Printed("Result: Task1 finished")
    /\ \A t \in {"Task1", "Task2"} : tasks[t].st # "finished" /\ tasks[t].result = ""
    /\ Printed("Task1: Timed out!") =>
           Before("Task1: Task was cancelled", "Task1: Timed out!")
    /\ Printed("Task2: Successfully cancelled") =>
           Before("Task2: Task was cancelled", "Task2: Successfully cancelled")
    /\ (tasks["main"].coro = "timeout_demo" /\ tasks["main"].st # "pending") =>
           /\ tasks["main"].st = "finished"
           /\ Printed("Task1: Timed out!")
           /\ Printed("Task2: Successfully cancelled")

C10_Witness ==
    /\ entry = "timeout_demo" /\ status = "exited"
    /\ Printed("Task1: Timed out!") /\ Printed("Task2: Successfully cancelled")

\* the URL contains "error", each letter in either case
HasError(u) ==
    \E k \in 0..(Len(u) - 5) :
        \A j \in 1..5 : u[k + j] \in {<<"e", "r", "r", "o", "r">>[j],
                                       <<"E", "R", "R", "O", "R">>[j]}

\* the indices of urls whose fetch raised / returned, in input order
FailedAt == SelectSeq([i \in 1..Len(urls) |-> i], LAMBDA i : fetched[i].kind = "exception")
SucceededAt == SelectSeq([i \in 1..Len(urls) |-> i], LAMBDA i : fetched[i].kind = "result")

\* C11: fetch_multiple_urls(urls) returns only after every fetch has finished,
\* with len(successful) + len(failed) == total_urls == len(urls); a URL is in
\* 'failed' exactly when it contains 'error' in any letter case; each failed
\* entry carries the URL at the index of its exception; 'successful' holds the
\* results in input order, whatever order the fetches completed in.
C11_FetchMultipleUrls ==
    ret.returned =>
        /\ \A i \in 1..Len(urls) : fetched[i].kind # "pending"
        /\ Len(ret.successful) + Len(ret.failed) = ret.total_urls
        /\ ret.total_urls = Len(urls)
        /\ \A i \in 1..Len(urls) :
               (\E k \in 1..Len(ret.failed) : ret.failed[k].url = urls[i]) <=> HasError(urls[i])
        /\ Len(ret.failed) = Len(FailedAt)
        /\ \A k \in 1..Len(ret.failed) :
               /\ ret.failed[k].url = urls[FailedAt[k]]
               /\ ret.failed[k].error = fetched[FailedAt[k]].error
               /\ ret.failed[k].error = "Failed to fetch " \o Text(urls[FailedAt[k]])
        /\ Len(ret.successful) = Len(SucceededAt)
        /\ \A k \in 1..Len(ret.successful) :
               /\ ret.successful[k] = fetched[SucceededAt[k]]
               /\ ret.successful[k].url = urls[SucceededAt[k]]

\* two fetches succeeded, the second one first, and the function has returned
C11_Witness ==
    /\ entry = "fetch_multiple_urls" /\ ret.returned
    /\ Len(ret.successful) = 2
    /\ fetched[2].delay < fetched[1].delay
    /\ fetched[1].size # fetched[2].size

\* a URL with 'error' in upper case failed although it ended before a success
C11_WitnessFailed ==
    /\ entry = "fetch_multiple_urls" /\ ret.returned
    /\ Len(ret.failed) = 1 /\ Len(ret.successful) = 1
    /\ Contains(ret.failed[1].url, <<"E">>)

\* the lines of a file as stored: cut after each "\r\n", "\r" or "\n"
RECURSIVE StoredLines(_, _)
StoredLines(cs, line) ==
    IF cs = <<>> THEN (IF line = <<>> THEN <<>> ELSE <<line>>)
    ELSE IF cs[1] = "\r" /\ Len(cs) > 1 /\ cs[2] = "\n"
    THEN <<line \o <<"\r", "\n">> >> \o StoredLines(Tail(Tail(cs)), <<>>)
    ELSE IF cs[1] \in {"\r", "\n"}
    THEN <<Append(line, cs[1])>> \o StoredLines(Tail(cs), <<>>)
    ELSE StoredLines(Tail(cs), Append(line, cs[1]))

HasERROR(line) ==
    \E k \in 0..(Len(line) - 5) :
        \A j \in 1..5 : line[k + j] = <<"E", "R", "R", "O", "R">>[j]

\* the lines of the input file, as it was before the call, that contain ERROR
ErrorLinesBefore == SelectSeq(StoredLines(filtered.before[filtered.input_file], <<>>), HasERROR)

\* C12: filter_error_logs(input_file, output_file) writes to the output file
\* exactly the lines of the input file that contain 'ERROR', in their order and
\* unchanged, and returns their number; when the input file does not exist it
\* returns 0 and raises nothing.
C12_FilterErrorLogs ==
    filtered.called =>
        /\ filtered.exc = NoExc
        /\ IF filtered.input_file \in DOMAIN filtered.before
           THEN /\ filtered.output_file \in DOMAIN content
                /\ content[filtered.output_file] = Flatten(ErrorLinesBefore)
                /\ filtered.value = Len(ErrorLinesBefore)
           ELSE filtered.value = 0

\* the Fibonacci numbers 0, 1, 1, 2, 3, ... by their recurrence, counted from 0
RECURSIVE Fibonacci(_)
Fibonacci(k) == IF k < 2 THEN k ELSE Fibonacci(k - 1) + Fibonacci(k - 2)

\* what g has yielded is the start of the Fibonacci sequence below or at m, and
\* all of it once g is done
YieldsFibonacciUpTo(g, m) ==
    /\ \A k \in 1..Len(g.yielded) : g.yielded[k] = Fibonacci(k - 1) /\ g.yielded[k] <= m
    /\ g.state = "done" => Fibonacci(Len(g.yielded)) > m
    /\ m < 0 => g.yielded = <<>>
    /\ Len(g.yielded) <= IF m < 0 THEN 0 ELSE m + 2

\* C13: fibonacci_generator(max_value) yields, in order, exactly the Fibonacci
\* numbers 0, 1, 1, 2, 3, ... that are <= max_value and then ends (nothing when
\* max_value < 0); DataProcessor.fibonacci_up_to(max_val) yields the same.
C13_FibonacciUpToMax ==
    entry = "fibonacci" =>
        /\ YieldsFibonacciUpTo(fib.generator, fib.max_value)
        /\ YieldsFibonacciUpTo(fib.up_to, fib.max_value)
        /\ (fib.generator.state = "done" /\ fib.up_to.state = "done") =>
               fib.generator.yielded = fib.up_to.yielded

C13_Witness ==
    /\ entry = "fibonacci" /\ fib.max_value >= 5
    /\ fib.generator.state = "done" /\ fib.up_to.state = "done"
    /\ Len(fib.generator.yielded) >= 6
    /\ fib.generator.yielded[Len(fib.generator.yielded)] = fib.max_value

\* C14: iterating CountDown(n) yields n, n-1, ..., 1 and then raises
\* StopIteration, after exactly n values (none when n <= 0); once it has raised
\* StopIteration every later next() raises it again and yields nothing more.
C14_CountDown ==
    entry = "CountDown" =>
        /\ \A k \in 1..Len(countdown.yielded) : countdown.yielded[k] = countdown.n - k + 1
        /\ Len(countdown.yielded) <= IF countdown.n < 0 THEN 0 ELSE countdown.n
        /\ countdown.stops > 0 =>
               Len(countdown.yielded) = IF countdown.n < 0 THEN 0 ELSE countdown.n

C14_Witness ==
    /\ entry = "CountDown" /\ countdown.n >= 2
    /\ countdown.stops >= 2
    /\ Len(countdown.yielded) = countdown.n

\* the caller saw the deposit or withdrawal succeed: no exception, no error message
Accepted(c) == c.op \in {"deposit", "withdraw"} /\ c.kind = "return" /\ c.text \notin ErrorTexts

\* the balance the account was created with
InitialBalance == IF calls = <<>> THEN acct.balance ELSE calls[1].pre.balance

\* accepted deposits minus accepted withdrawals
RECURSIVE Net(_)
Net(cs) ==
    IF cs = <<>> THEN 0
    ELSE LET c == cs[Len(cs)] IN
         Net(SubSeq(cs, 1, Len(cs) - 1))
           + (IF ~Accepted(c) THEN 0 ELSE IF c.op = "deposit" THEN c.amount ELSE 0 - c.amount)

\* C15: for every BankAccount class created with an initial balance >= 0, after
\* any sequence of deposit and withdraw calls, accepted or rejected, the balance
\* is not negative and equals the initial balance plus the accepted deposits
\* minus the accepted withdrawals.
C15_BalanceIsSumOfAccepted ==
    (IsBank /\ InitialBalance >= 0) =>
        /\ acct.balance >= 0
        /\ acct.balance = InitialBalance + Net(calls)

C15_Witness ==
    /\ IsBank /\ InitialBalance >= 0 /\ Len(calls) = 3
    /\ Accepted(calls[1]) /\ calls[1].op = "deposit"
    /\ calls[2].op = "withdraw" /\ ~Accepted(calls[2]) /\ calls[2].amount > calls[2].pre.balance
    /\ Accepted(calls[3]) /\ calls[3].op = "withdraw"

\* the change_pin call was answered 'PIN changed successfully'
PinChanged(c) == c.op = "change_pin" /\ c.text = "PIN changed successfully"

\* the last successful change_pin before call k, 0 when there is none
LastChange(k) ==
    IF \E j \in 1..(k - 1) : PinChanged(calls[j])
    THEN CHOOSE j \in 1..(k - 1) :
            PinChanged(calls[j]) /\ \A i \in (j + 1)..(k - 1) : ~PinChanged(calls[i])
    ELSE 0

\* withdraw moves the balance only with the current PIN, and a wrong PIN is
\* reported whatever the amount; change_pin replaces the PIN only when old_pin
\* is the current one, and then the new PIN is the one withdraw accepts
PinRules ==
    /\ \A k \in 1..Len(calls) :
          LET c == calls[k] IN
          /\ c.op = "withdraw" =>
                /\ c.pin # c.pre.pin => c.text = "Invalid PIN" /\ c.kind = "return"
                /\ c.pin = c.pre.pin => c.text # "Invalid PIN"
                /\ Accepted(c) => c.pin = c.pre.pin
          /\ PinChanged(c) <=> (c.op = "change_pin" /\ c.pin = c.pre.pin)
          /\ (c.op = "withdraw" /\ LastChange(k) # 0) =>
                (c.text # "Invalid PIN" <=> c.pin = calls[LastChange(k)].new)
          /\ (c.op = "withdraw" /\ LastChange(k) = 0) =>
                (c.text # "Invalid PIN" <=> c.pin = "1234")
    /\ \A k \in 1..Len(calls) :
          LET after == IF k = Len(calls) THEN acct ELSE calls[k + 1].pre IN
          /\ after.balance # calls[k].pre.balance =>
                (calls[k].op = "deposit" \/ calls[k].pin = calls[k].pre.pin)
          /\ after.pin # calls[k].pre.pin => PinChanged(calls[k])
          /\ PinChanged(calls[k]) => after.pin = calls[k].new

\* C16 as stated: in 12_oop_principles' BankAccount, withdraw changes the
\* balance only when the supplied pin equals the current PIN, the PIN is checked
\* before the amount, change_pin(old_pin, new_pin) replaces the PIN only when
\* old_pin equals the current PIN, and after it withdraw rejects the old PIN and
\* accepts the new one.
C16_PinGuardsWithdrawal ==
    entry = "bank12" =>
        /\ PinRules
        /\ \A k \in 1..Len(calls) :
              (calls[k].op = "withdraw" /\ LastChange(k) # 0
                 /\ calls[k].pin = calls[LastChange(k)].pin) => calls[k].text = "Invalid PIN"

\* C16, amended: as above, but after change_pin(old_pin, new_pin) withdraw
\* rejects the old PIN only when new_pin differs from it; it accepts the new
\* PIN and rejects every other one.
C16_PinGuardsWithdrawalAmended ==
    entry = "bank12" =>
        /\ PinRules
        /\ \A k \in 1..Len(calls) :
              (calls[k].op = "withdraw" /\ LastChange(k) # 0
                 /\ calls[k].pin = calls[LastChange(k)].pin
                 /\ calls[LastChange(k)].new # calls[LastChange(k)].pin) =>
                    calls[k].text = "Invalid PIN"

\* the PIN was changed, then a withdrawal with the old PIN was refused and one
\* with the new PIN made
C16_Witness ==
    /\ entry = "bank12" /\ Len(calls) = 3
    /\ PinChanged(calls[1]) /\ calls[1].new # calls[1].pin
    /\ calls[2].op = "withdraw" /\ calls[2].pin = calls[1].pin
    /\ calls[2].amount > 0 /\ calls[2].amount <= calls[2].pre.balance
    /\ calls[3].op = "withdraw" /\ calls[3].pin = calls[1].new /\ Accepted(calls[3])

\* the entries transaction_history must hold for the calls made
RECURSIVE HistoryOf(_)
HistoryOf(cs) ==
    IF cs = <<>> THEN <<>>
    ELSE LET c == cs[Len(cs)] IN
         HistoryOf(SubSeq(cs, 1, Len(cs) - 1))
           \o (IF ~Accepted(c) THEN <<>>
               ELSE IF c.op = "deposit" THEN <<Entry("Deposit", c.amount)>>
               ELSE <<Entry("Withdrawal", c.amount)>>)

\* C17: in 12_oop_principles get_transaction_count() is the number of accepted
\* deposit and withdraw calls since creation (rejected calls and change_pin do
\* not change it); in 11_oop_fundamentals transaction_history holds, in call
\* order, one entry per accepted deposit or withdrawal, after one 'Initial
\* deposit' entry exactly when the initial balance is > 0.
C17_RecordMatchesAccepted ==
    /\ entry = "bank12" =>
          acct.count = Cardinality({k \in 1..Len(calls) : Accepted(calls[k])})
    /\ entry = "bank11" =>
          acct.history = (IF InitialBalance > 0
                          THEN <<Entry("Initial deposit", InitialBalance)>> ELSE <<>>)
                         \o HistoryOf(calls)

C17_Witness ==
    /\ entry = "bank12" /\ Len(calls) = 3
    /\ Accepted(calls[1])
    /\ PinChanged(calls[2])
    /\ calls[3].op = "withdraw" /\ ~Accepted(calls[3])
    /\ acct.count = 1

\* a history with the initial deposit, a deposit, a refusal and a withdrawal
C17_WitnessHistory ==
    /\ entry = "bank11" /\ Len(calls) = 3 /\ InitialBalance > 0
    /\ Accepted(calls[1]) /\ ~Accepted(calls[2]) /\ Accepted(calls[3])
    /\ calls[1].op = "deposit" /\ calls[3].op = "withdraw"
    /\ Len(acct.history) = 3

====
